---- MODULE Spec2Model ----
(***************************************************************************)
(* Model of footnote_title_replacer.py: the separator pass over adjacent   *)
(* footnote markers, the footnote rewriter with its title resolver, the    *)
(* run counters, the error log and the final summary.                      *)
(*                                                                         *)
(* A text is a sequence of one-character strings.  The two regular         *)
(* expressions of process_markdown are evaluated character by character,   *)
(* as Python's re module evaluates them (leftmost match, lazy and greedy   *)
(* quantifiers, non-overlapping substitution).                             *)
(***************************************************************************)
EXTENDS Integers, Sequences, FiniteSets, TLC

\* ------------------------------------------------------------------ bounds
\* Number of pieces a document is assembled from.
MaxPieces == 3

\* ------------------------------------------------------------ text helpers
RECURSIVE Flatten(_)
Flatten(ss) == IF ss = <<>> THEN <<>> ELSE Head(ss) \o Flatten(Tail(ss))

\* lit occurs in t at index i
IsAt(t, i, lit) ==
    /\ i >= 1
    /\ i + Len(lit) - 1 <= Len(t)
    /\ \A j \in 1..Len(lit) : t[i + j - 1] = lit[j]

\* the in operator of Python on strings
Contains(t, lit) == \E i \in 1..(Len(t) + 1) : IsAt(t, i, lit)

\* str.startswith
StartsWith(t, lit) == IsAt(t, 1, lit)

\* the regex class . (anything but a newline)
Dot(c) == c # "\n"
\* the regex class \s, on the characters documents are written in
WS(c) == c \in {" ", "\n"}

\* length of the longest run of characters . matches starting at p
RECURSIVE DotRun(_, _)
DotRun(t, p) == IF p <= Len(t) /\ Dot(t[p]) THEN 1 + DotRun(t, p + 1) ELSE 0

\* length of the longest run of whitespace / of non-whitespace starting at p
RECURSIVE WsRun(_, _)
WsRun(t, p) == IF p <= Len(t) /\ WS(t[p]) THEN 1 + WsRun(t, p + 1) ELSE 0

RECURSIVE NonWsRun(_, _)
NonWsRun(t, p) == IF p <= Len(t) /\ ~WS(t[p]) THEN 1 + NonWsRun(t, p + 1) ELSE 0

\* length of the run of whitespace that ends at p
RECURSIVE WsRunBack(_, _)
WsRunBack(t, p) == IF p >= 1 /\ WS(t[p]) THEN 1 + WsRunBack(t, p - 1) ELSE 0

\* str.strip
Strip(t) ==
    IF WsRun(t, 1) = Len(t) THEN <<>>
    ELSE SubSeq(t, 1 + WsRun(t, 1), Len(t) - WsRunBack(t, Len(t)))

UpperChars == <<"A", "B", "C", "D", "E", "F", "G", "H", "I", "J", "K", "L", "M", "N", "O", "P", "Q", "R", "S", "T", "U", "V", "W", "X", "Y", "Z">>
LowerChars == <<"a", "b", "c", "d", "e", "f", "g", "h", "i", "j", "k", "l", "m", "n", "o", "p", "q", "r", "s", "t", "u", "v", "w", "x", "y", "z">>

UpperSet == {UpperChars[k] : k \in 1..26}
LowerMap == [c \in UpperSet |-> LowerChars[CHOOSE k \in 1..26 : UpperChars[k] = c]]

LowerChar(c) == IF c \in UpperSet THEN LowerMap[c] ELSE c

\* str.lower
Lower(t) == [j \in 1..Len(t) |-> LowerChar(t[j])]

\* ----------------------------------------------------------------- literals
MarkerOpen == <<"[", "^">>
SeparatorText == <<"<", "s", "u", "p", ">", ",", "<", "/", "s", "u", "p", ">">>
SchemeHttp == <<"h", "t", "t", "p", ":", "/", "/">>
SchemeHttps == <<"h", "t", "t", "p", "s", ":", "/", "/">>
UntitledPdf == <<"U", "n", "t", "i", "t", "l", "e", "d", " ", "P", "D", "F">>
UntitledWebpage == <<"U", "n", "t", "i", "t", "l", "e", "d", " ", "W", "e", "b", "p", "a", "g", "e">>
UnknownResource == <<"U", "n", "k", "n", "o", "w", "n", " ", "R", "e", "s", "o", "u", "r", "c", "e">>
ErrorRetrievingTitle == <<"E", "r", "r", "o", "r", " ", "r", "e", "t", "r", "i", "e", "v", "i", "n", "g", " ", "t", "i", "t", "l", "e">>
RetrievedOn == <<" ", "r", "e", "t", "r", "i", "e", "v", "e", "d", " ", "o", "n", " ">>
VerifyingPrefix == <<"v", "e", "r", "i", "f", "y", "i", "n", "g", " ", "i", "f", " ", "y", "o", "u", "r", " ", "c", "o", "n", "n", "e", "c", "t", "i", "o", "n">>
CloudflareWord == <<"c", "l", "o", "u", "d", "f", "l", "a", "r", "e">>
VerifyingExact == <<"v", "e", "r", "i", "f", "y", "i", "n", "g", " ", "i", "f", " ", "y", "o", "u", "r", " ", "c", "o", "n", "n", "e", "c", "t", "i", "o", "n", " ", "i", "s", " ", "s", "e", "c", "u", "r", "e", ".", ".", ".">>
PdfType == <<"a", "p", "p", "l", "i", "c", "a", "t", "i", "o", "n", "/", "p", "d", "f">>
HtmlType == <<"t", "e", "x", "t", "/", "h", "t", "m", "l">>

\* ----------------------------------------------------------- the documents
\* The pieces documents are assembled from: a footnote marker, a bracketed
\* token that is no marker, a space, a newline, a letter, two definitions
\* whose body is a bare URL and one whose body already is a link.
Pieces == <<
    <<"[", "^", "1", "]">>,
    <<"[", "t", "]">>,
    <<" ">>,
    <<"\n">>,
    <<"x">>,
    <<"[", "^", "1", "]", ":", " ", "h", "t", "t", "p", ":", "/", "/", "a">>,
    <<"[", "^", "2", "]", ":", " ", "h", "t", "t", "p", "s", ":", "/", "/", "b">>,
    <<"[", "^", "3", "]", ":", " ", "[", "T", "]", "(", "h", "t", "t", "p", ":", "/", "/", "a", ")">>
>>

DocsOfLen(n) == {Flatten([k \in 1..n |-> Pieces[f[k]]]) : f \in [1..n -> 1..Len(Pieces)]}

Docs == UNION {DocsOfLen(n) : n \in 0..MaxPieces}

\* --------------------------------------------------------- step 1: markers
\* The lazy group .+? of (\[\^.+?\])(\[\^) that starts at a, tried at
\* length k: it grows one character at a time, takes no newline, and stops
\* at the first length after which ][^ follows.  0 when there is none.
RECURSIVE SepLazy(_, _, _)
SepLazy(t, a, k) ==
    IF a + k - 1 > Len(t) \/ ~Dot(t[a + k - 1]) THEN 0
    ELSE IF IsAt(t, a + k, <<"]", "[", "^">>) THEN k
    ELSE SepLazy(t, a, k + 1)

SepMatchAt(t, i) == IsAt(t, i, MarkerOpen) /\ SepLazy(t, i + 2, 1) # 0

\* first index after the match that starts at i
SepMatchEnd(t, i) == i + 2 + SepLazy(t, i + 2, 1) + 3

\* start of the leftmost match at or after p, 0 when there is none
RECURSIVE SepSearch(_, _)
SepSearch(t, p) ==
    IF p > Len(t) THEN 0
    ELSE IF SepMatchAt(t, p) THEN p
    ELSE SepSearch(t, p + 1)

\* the replacement r'\1<sup>,</sup>\2' of a match with groups g1, g2
SepReplacement(g1, g2) == g1 \o SeparatorText \o g2

\* re.subn of the separator pattern from index p on: the new text and the
\* number of substitutions.  The scan goes on after the end e of each match.
RECURSIVE SepSubn(_, _)
SepJoin(head, rest) == [text |-> head \o rest.text, n |-> rest.n + 1]

SepSubnCut(t, p, i, e) ==
    SepJoin(SubSeq(t, p, i - 1) \o SepReplacement(SubSeq(t, i, e - 3), SubSeq(t, e - 2, e - 1)),
            SepSubn(t, e))

SepSubnAt(t, p, i) ==
    IF i = 0 THEN [text |-> SubSeq(t, p, Len(t)), n |-> 0]
    ELSE SepSubnCut(t, p, i, SepMatchEnd(t, i))

SepSubn(t, p) == SepSubnAt(t, p, SepSearch(t, p))

\* ------------------------------------------------------ step 2: footnotes
\* length of http:// or https:// at q (https?://), 0 when neither is there
SchemeLen(t, q) ==
    IF IsAt(t, q, SchemeHttps) THEN Len(SchemeHttps)
    ELSE IF IsAt(t, q, SchemeHttp) THEN Len(SchemeHttp)
    ELSE 0

\* (https?://\S+) at q
FootUrlAt(t, q) == SchemeLen(t, q) > 0 /\ NonWsRun(t, q + SchemeLen(t, q)) >= 1

\* \]:\s+(https?://\S+) at p
FootTailAt(t, p) ==
    /\ IsAt(t, p, <<"]", ":">>)
    /\ WsRun(t, p + 2) >= 1
    /\ FootUrlAt(t, p + 2 + WsRun(t, p + 2))

\* The lazy group (.+?) of \[\^(.+?)\]:\s+(https?://\S+) that starts at a,
\* tried at length k: the first length after which the rest matches, 0 when
\* there is none
RECURSIVE FootLazy(_, _, _)
FootLazy(t, a, k) ==
    IF a + k - 1 > Len(t) \/ ~Dot(t[a + k - 1]) THEN 0
    ELSE IF FootTailAt(t, a + k) THEN k
    ELSE FootLazy(t, a, k + 1)

FootMatchAt(t, i) == IsAt(t, i, MarkerOpen) /\ FootLazy(t, i + 2, 1) # 0

\* start of the leftmost match at or after p, 0 when there is none
RECURSIVE FootSearch(_, _)
FootSearch(t, p) ==
    IF p > Len(t) THEN 0
    ELSE IF FootMatchAt(t, p) THEN p
    ELSE FootSearch(t, p + 1)

\* the match object of the match that starts at i, its label k long and
\* its URL starting at q: the span [start, end), group(1) and group(2)
FootMatchUrl(t, i, k, q) ==
    [start |-> i,
     end |-> q + SchemeLen(t, q) + NonWsRun(t, q + SchemeLen(t, q)),
     group1 |-> SubSeq(t, i + 2, i + 1 + k),
     group2 |-> SubSeq(t, q, q + SchemeLen(t, q) + NonWsRun(t, q + SchemeLen(t, q)) - 1)]

FootMatchLabel(t, i, k) == FootMatchUrl(t, i, k, i + k + 4 + WsRun(t, i + k + 4))

FootMatch(t, i) == FootMatchLabel(t, i, FootLazy(t, i + 2, 1))

\* the new footnote with the title and the URL in each other's place
new_footnote_swapped(label, title, url, date) ==
    MarkerOpen \o label \o <<"]", ":", " ", "[">> \o url \o <<"]", "(">> \o title
        \o <<")">> \o RetrievedOn \o date

\* f"[^{label}]: [{title}]({url}) retrieved on {date_str}"
new_footnote(label, title, url, date) ==
    MarkerOpen \o label \o <<"]", ":", " ", "[">> \o title \o <<"]", "(">> \o url
        \o <<")">> \o RetrievedOn \o date

\* ------------------------------------------------------------ the resolver
\* What one GET can come to: the transport raises, or a response arrives
\* with a declared content type and a payload.  For a PDF payload: whether
\* PdfReader parses it, whether the document has metadata, and its title;
\* for an HTML payload: whether it has a <title> element, and its text.
TitleT == <<"T">>
TitlePadded == <<" ", "T", "\n">>
TitleBot == <<"V", "e", "r", "i", "f", "y", "i", "n", "g", " ", "i", "f", " ", "y", "o", "u", "r", " ", "c", "o", "n", "n", "e", "c", "t", "i", "o", "n", " ", "i", "s", " ", "s", "e", "c", "u", "r", "e", ".", ".", ".">>
TitleCloudflare == <<"J", "u", "s", "t", " ", "a", " ", "m", "o", "m", "e", "n", "t", " ", "|", " ", "C", "l", "o", "u", "d", "f", "l", "a", "r", "e">>
TypePdf == PdfType
TypeHtml == HtmlType \o <<";", " ", "c", "h", "a", "r", "s", "e", "t", "=", "u", "t", "f", "-", "8">>
TypeJson == <<"a", "p", "p", "l", "i", "c", "a", "t", "i", "o", "n", "/", "j", "s", "o", "n">>

Response(ct, parses, meta, hasTitle, title) ==
    [raises |-> "", content_type |-> ct, parses |-> parses, has_metadata |-> meta,
     has_title |-> hasTitle, title |-> title]

Raises(reason) ==
    [raises |-> reason, content_type |-> <<>>, parses |-> FALSE, has_metadata |-> FALSE,
     has_title |-> FALSE, title |-> <<>>]

TransportFailures == {Raises("Timeout"), Raises("ConnectionError")}

PdfResponses ==
    {Response(TypePdf, FALSE, FALSE, FALSE, <<>>),
     Response(TypePdf, TRUE, FALSE, FALSE, <<>>),
     Response(TypePdf, TRUE, TRUE, FALSE, <<>>),
     Response(TypePdf, TRUE, TRUE, TRUE, <<>>),
     Response(TypePdf, TRUE, TRUE, TRUE, TitleT),
     Response(TypePdf, TRUE, TRUE, TRUE, TitleBot)}

HtmlResponses ==
    {Response(TypeHtml, TRUE, FALSE, FALSE, <<>>),
     Response(TypeHtml, TRUE, FALSE, TRUE, TitlePadded),
     Response(TypeHtml, TRUE, FALSE, TRUE, TitleBot),
     Response(TypeHtml, TRUE, FALSE, TRUE, TitleCloudflare)}

OtherResponses ==
    {Response(TypeJson, TRUE, FALSE, FALSE, <<>>),
     Response(<<>>, TRUE, FALSE, FALSE, <<>>)}

\* the outcome of a block of code: the value it computes, or the exception
\* it raises
Value(title) == [raised |-> "", title |-> title]
Raise(reason) == [raised |-> reason, title |-> <<>>]

\* reader = PdfReader(...); title = reader.metadata.title or 'Untitled PDF'
PdfTitle(r) ==
    IF ~r.parses THEN Raise("PdfReadError")
    ELSE IF ~r.has_metadata THEN Raise("AttributeError")
    ELSE IF r.has_title /\ r.title # <<>> THEN Value(r.title)
    ELSE Value(UntitledPdf)

\* the HTML branch without its bot protection test
HtmlTitle_unchecked(r) == Value(IF r.has_title THEN Strip(r.title) ELSE UntitledWebpage)

\* title_tag = soup.find('title'); title = ...; the bot protection test
HtmlTitle(r) ==
    LET title == IF r.has_title THEN Strip(r.title) ELSE UntitledWebpage
    IN IF StartsWith(Lower(title), VerifyingPrefix) \/ Contains(Lower(title), CloudflareWord)
       THEN Raise("Bot protection page detected")
       ELSE Value(title)

\* if title.strip().lower() == "verifying if your connection is secure...": raise
FinalTitleCheck(v) ==
    IF v.raised = "" /\ Lower(Strip(v.title)) = VerifyingExact
    THEN Raise("Detected bot protection title")
    ELSE v

\* the except branch: count, log, return the placeholder
OnException(reason, url, original_footnote) ==
    [title |-> ErrorRetrievingTitle, errors |-> 1,
     entries |-> <<[url |-> url, footnote |-> original_footnote, reason |-> reason]>>]

\* the else branch logging without counting
OnUnknownType_uncounted(url, original_footnote) ==
    [title |-> UnknownResource, errors |-> 0,
     entries |-> <<[url |-> url, footnote |-> original_footnote,
                    reason |-> "Unknown content type"]>>]

\* the else branch of the content type test: count, log, return the placeholder
OnUnknownType(url, original_footnote) ==
    [title |-> UnknownResource, errors |-> 1,
     entries |-> <<[url |-> url, footnote |-> original_footnote,
                    reason |-> "Unknown content type"]>>]

OnTitle(title) == [title |-> title, errors |-> 0, entries |-> <<>>]

\* get_title_from_url, given what the GET comes to: the string it returns,
\* what it adds to error_count and what it appends to the error log
get_title_from_url(r, url, original_footnote) ==
    IF r.raises # "" THEN OnException(r.raises, url, original_footnote)
    ELSE IF ~Contains(r.content_type, PdfType) /\ ~Contains(r.content_type, HtmlType)
    THEN OnUnknownType(url, original_footnote)
    ELSE LET v == FinalTitleCheck(IF Contains(r.content_type, PdfType)
                                  THEN PdfTitle(r) ELSE HtmlTitle(r))
         IN IF v.raised # ""
            THEN OnException(v.raised, url, original_footnote)
            ELSE OnTitle(v.title)

\* ------------------------------------------------------------------ dates
Digits == <<"0", "1", "2", "3", "4", "5", "6", "7", "8", "9">>
Digit(n) == Digits[n + 1]
Pad2(n) == <<Digit(n \div 10), Digit(n % 10)>>
Pad4(n) == <<Digit(n \div 1000), Digit((n \div 100) % 10), Digit((n \div 10) % 10), Digit(n % 10)>>

\* today.strftime('%Y-%m-%d')
Strftime(d) == Pad4(d.year) \o <<"-">> \o Pad2(d.month) \o <<"-">> \o Pad2(d.day)

\* the day of the run
Todays == {[year |-> 2025, month |-> 3, day |-> 9]}

\* -------------------------------------------------------------- the state
VARIABLES
    input,            \* the input file
    date_str,         \* the module's date_str
    pc,               \* where process_markdown stands
    content,          \* process_markdown's content
    subject,          \* the string the re.subn of step 2 was called on
    comma_count, footnote_count, processed_links, error_count,
    error_log,        \* the records of the error log file, in order
    pos, out,         \* the re.subn of step 2: scan position, text built so far
    cur,              \* the match replace_footnote is called with
    fetches,          \* the URLs of the GETs issued so far, in order
    fetched,          \* what the last GET came to
    calls,            \* the calls of get_title_from_url that returned: where
                      \* the match stood, the URL and the string returned
    output_file,      \* the output file, once written
    summary           \* the summary, once printed

vars == <<input, date_str, pc, content, subject, comma_count, footnote_count, processed_links,
          error_count, error_log, pos, out, cur, fetches, fetched, calls, output_file,
          summary>>

NoMatch == [start |-> 0, end |-> 0, group1 |-> <<>>, group2 |-> <<>>]
NoSummary == [printed |-> FALSE]
NoFetch == Raises("")

\* the module's globals as its top level leaves them; nothing read yet
Init ==
    /\ input \in Docs
    /\ date_str \in {Strftime(d) : d \in Todays}
    /\ pc = "start"
    /\ content = <<>>
    /\ subject = <<>>
    /\ comma_count = 0
    /\ footnote_count = 0
    /\ processed_links = 0
    /\ error_count = 0
    /\ error_log = <<>>
    /\ pos = 1
    /\ out = <<>>
    /\ cur = NoMatch
    /\ fetches = <<>>
    /\ fetched = NoFetch
    /\ calls = <<>>
    /\ output_file = <<>>
    /\ summary = NoSummary

\* process_markdown: content = f.read()
ReadInput ==
    /\ pc = "start"
    /\ content' = input
    /\ pc' = "loaded"
    /\ UNCHANGED <<input, date_str, subject, comma_count, footnote_count, processed_links,
                   error_count, error_log, pos, out, cur, fetches, fetched, calls,
                   output_file, summary>>

\* Step 1: content, comma_count = re.subn(separator pattern, ..., content)
Separate ==
    /\ pc = "loaded"
    /\ content' = SepSubn(content, 1).text
    /\ comma_count' = SepSubn(content, 1).n
    /\ subject' = content'
    /\ pos' = 1
    /\ out' = <<>>
    /\ pc' = "scan"
    /\ UNCHANGED <<input, date_str, footnote_count, processed_links, error_count,
                   error_log, cur, fetches, fetched, calls, output_file, summary>>

\* replace_footnote is called with match m: it counts the footnote and
\* calls get_title_from_url, which issues the GET
replace_footnote_called(m) ==
    /\ cur' = m
    /\ out' = out \o SubSeq(subject, pos, m.start - 1)
    /\ pos' = m.end
    /\ fetches' = Append(fetches, Strip(m.group2))
    /\ footnote_count' = footnote_count + 1

\* Step 2, the next match: re.subn finds it and calls replace_footnote
MatchFootnote ==
    /\ pc = "scan"
    /\ FootSearch(subject, pos) # 0
    /\ replace_footnote_called(FootMatch(subject, FootSearch(subject, pos)))
    /\ pc' = "fetching"
    /\ UNCHANGED <<input, date_str, content, subject, comma_count, processed_links, error_count,
                   error_log, fetched, calls, output_file, summary>>

\* a link counted only when its title was retrieved
count_link_retrieved(n, title) == IF title = ErrorRetrievingTitle THEN n ELSE n + 1

\* processed_links += 1, whatever title came back
count_link(n, title) == n + 1

\* get_title_from_url returns res for the URL url: replace_footnote counts
\* the link and returns the new footnote, which re.subn puts in place
replace_footnote_returns(url, res) ==
    /\ error_count' = error_count + res.errors
    /\ error_log' = error_log \o res.entries
    /\ calls' = Append(calls, [at |-> cur.start, url |-> url, title |-> res.title])
    /\ out' = out \o new_footnote(cur.group1, res.title, url, date_str)
    /\ processed_links' = count_link(processed_links, res.title)

\* the GET comes to r
Resolved(r) ==
    /\ pc = "fetching"
    /\ replace_footnote_returns(
          Strip(cur.group2),
          get_title_from_url(r, Strip(cur.group2), SubSeq(subject, cur.start, cur.end - 1)))
    /\ fetched' = r
    /\ cur' = NoMatch
    /\ pc' = "scan"
    /\ UNCHANGED <<input, date_str, content, subject, comma_count, footnote_count, pos, fetches,
                   output_file, summary>>

\* requests.get raises
FetchRaises ==
    /\ pc = "fetching"
    /\ \E r \in TransportFailures : Resolved(r)

\* the response declares a PDF
RespondPdf ==
    /\ pc = "fetching"
    /\ \E r \in PdfResponses : Resolved(r)

\* the response declares HTML
RespondHtml ==
    /\ pc = "fetching"
    /\ \E r \in HtmlResponses : Resolved(r)

\* the response declares another content type, or none
RespondOther ==
    /\ pc = "fetching"
    /\ \E r \in OtherResponses : Resolved(r)

\* the summary printed at the end
Summarise(commas, links, errors) ==
    [printed |-> TRUE, commas |-> commas, links |-> links, errors |-> errors,
     log_path_shown |-> (errors # 0)]

\* no match is left: re.subn returns, the output is written, the summary
\* is printed
Finish ==
    /\ pc = "scan"
    /\ FootSearch(subject, pos) = 0
    /\ content' = out \o SubSeq(subject, pos, Len(subject))
    /\ output_file' = content'
    /\ summary' = Summarise(comma_count, processed_links, error_count)
    /\ pc' = "done"
    /\ UNCHANGED <<input, date_str, subject, comma_count, footnote_count, processed_links,
                   error_count, error_log, pos, out, cur, fetches, fetched, calls>>

Next ==
    \/ ReadInput
    \/ Separate
    \/ MatchFootnote
    \/ FetchRaises
    \/ RespondPdf
    \/ RespondHtml
    \/ RespondOther
    \/ Finish

Spec == Init /\ [][Next]_vars

TypeOK ==
    /\ pc \in {"start", "loaded", "scan", "fetching", "done"}
    /\ comma_count \in Nat /\ footnote_count \in Nat
    /\ processed_links \in Nat /\ error_count \in Nat

\* =================================================================== claims
\* ------------------------------------------ what the claims speak about
\* the text the separator pass returned is held by content while step 2
\* scans it
Separated == pc \in {"scan", "fetching"}

\* A footnote marker is [^label], its label one or more characters other
\* than brackets and newlines.
RECURSIVE LabelRun(_, _)
LabelRun(t, p) ==
    IF p <= Len(t) /\ t[p] \notin {"[", "]", "\n"} THEN 1 + LabelRun(t, p + 1) ELSE 0

\* index of the ] that closes the marker starting at i, 0 when none starts there
MarkerEnd(t, i) ==
    IF IsAt(t, i, MarkerOpen) /\ LabelRun(t, i + 2) >= 1
          /\ IsAt(t, i + 2 + LabelRun(t, i + 2), <<"]">>)
    THEN i + 2 + LabelRun(t, i + 2)
    ELSE 0

MarkerStarts(t) == {i \in 1..Len(t) : MarkerEnd(t, i) # 0}

\* the indices at which a marker starts right after the end of another
AdjacentBoundaries(t) ==
    {i \in MarkerStarts(t) : \E h \in MarkerStarts(t) : MarkerEnd(t, h) = i - 1}

\* the first markers of the maximal runs of adjacent markers
RunHeads(t) == MarkerStarts(t) \ AdjacentBoundaries(t)

\* number of markers, and last index, of the maximal run whose first marker
\* starts at i
RECURSIVE RunMarkers(_, _)
RunMarkers(t, i) ==
    IF MarkerEnd(t, MarkerEnd(t, i) + 1) # 0 THEN 1 + RunMarkers(t, MarkerEnd(t, i) + 1) ELSE 1

RECURSIVE RunEnd(_, _)
RunEnd(t, i) ==
    IF MarkerEnd(t, MarkerEnd(t, i) + 1) # 0 THEN RunEnd(t, MarkerEnd(t, i) + 1)
    ELSE MarkerEnd(t, i)

\* where the separator text stands in c
Occurrences(c) == {q \in 1..Len(c) : IsAt(c, q, SeparatorText)}

\* the indices of the text before the pass in front of which c holds a separator
InsertedAt(c) ==
    {q - Len(SeparatorText) * Cardinality({r \in Occurrences(c) : r < q}) : q \in Occurrences(c)}

\* t with a separator put in front of each index of P
RECURSIVE InsertSeps(_, _, _)
InsertSeps(t, P, p) ==
    IF p > Len(t) THEN <<>>
    ELSE (IF p \in P THEN SeparatorText ELSE <<>>) \o <<t[p]>> \o InsertSeps(t, P, p + 1)

\* C2: after the separator pass every maximal run of N adjacent markers of
\* the document holds exactly N-1 separators, and comma_count is the number
\* of separators inserted.
C2_RunsFullySeparated ==
    Separated =>
        /\ \A i \in RunHeads(input) :
              Cardinality({q \in InsertedAt(content) : i < q /\ q <= RunEnd(input, i)})
                  = RunMarkers(input, i) - 1
        /\ comma_count = Cardinality(Occurrences(content))

\* C3: a second separator pass over the output of the first makes no
\* substitution and returns the text as it is.
C3_SeparatorIdempotent ==
    Separated => SepSubn(content, 1) = [text |-> content, n |-> 0]

\* C8: the separator pass inserts only where a marker is immediately
\* followed by a marker, and leaves every other character as it was.
C8_OnlyBetweenMarkers ==
    Separated =>
        /\ InsertedAt(content) \subseteq AdjacentBoundaries(input)
        /\ content = InsertSeps(input, InsertedAt(content), 1)

\* ------------------------------------------------- definitions, by line
\* the text step 1 hands to step 2
RewriterInput == subject

\* the lines of t from index p on, as spans [a, b] of indices
RECURSIVE LineSpans(_, _)
LineSpans(t, p) ==
    IF p + DotRun(t, p) > Len(t)
    THEN <<[a |-> p, b |-> p + DotRun(t, p) - 1]>>
    ELSE <<[a |-> p, b |-> p + DotRun(t, p) - 1]>> \o LineSpans(t, p + DotRun(t, p) + 1)

Cut(t, spans) == [n \in 1..Len(spans) |-> SubSeq(t, spans[n].a, spans[n].b)]
LinesOf(t) == Cut(t, LineSpans(t, 1))

\* a definition line: [^label]: body
IsDefLine(s) == MarkerEnd(s, 1) # 0 /\ IsAt(s, MarkerEnd(s, 1) + 1, <<":">>)
DefLabel(s) == SubSeq(s, 3, MarkerEnd(s, 1) - 1)
DefBody(s) == SubSeq(s, MarkerEnd(s, 1) + 2, Len(s))

\* one token that starts with http:// or https:// and goes on
IsBareUrl(u) ==
    /\ \A j \in 1..Len(u) : ~WS(u[j])
    /\ \/ StartsWith(u, SchemeHttp) /\ Len(u) > Len(SchemeHttp)
       \/ StartsWith(u, SchemeHttps) /\ Len(u) > Len(SchemeHttps)

\* a resolvable definition: its body, trimmed, is one bare URL
IsResolvable(s) == IsDefLine(s) /\ IsBareUrl(Strip(DefBody(s)))

\* a resolvable definition written [^label]: <url>
IsPlainResolvable(s) ==
    /\ IsDefLine(s)
    /\ DefBody(s) # <<>>
    /\ Head(DefBody(s)) = " "
    /\ IsBareUrl(Tail(DefBody(s)))

\* [^label]: [T](<url>) retrieved on D
Rewritten(label, T, url, D) ==
    <<"[", "^">> \o label \o <<"]", ":", " ", "[">> \o T \o <<"]", "(">> \o url \o <<")">>
        \o <<" ", "r", "e", "t", "r", "i", "e", "v", "e", "d", " ", "o", "n", " ">> \o D

\* the body of the definition whose marker starts at i, wherever on its
\* line it starts: what follows the colon, to the end of the line
BodyAt(t, i) == SubSeq(t, MarkerEnd(t, i) + 2, MarkerEnd(t, i) + 1 + DotRun(t, MarkerEnd(t, i) + 2))

IsResolvableAt(t, i) ==
    /\ MarkerEnd(t, i) # 0
    /\ IsAt(t, MarkerEnd(t, i) + 1, <<":">>)
    /\ IsBareUrl(Strip(BodyAt(t, i)))

\* the URLs of the resolvable definitions of t that start at index i or
\* later, in document order
RECURSIVE ResolvableUrlsFrom(_, _)
ResolvableUrlsFrom(t, i) ==
    IF i > Len(t) THEN <<>>
    ELSE (IF IsResolvableAt(t, i) THEN <<Strip(BodyAt(t, i))>> ELSE <<>>)
            \o ResolvableUrlsFrom(t, i + 1)

\* number of matches of the footnote pattern re.subn finds in t from p on
RECURSIVE CountFoot(_, _)
CountFrom(t, i) == IF i = 0 THEN 0 ELSE 1 + CountFoot(t, FootMatch(t, i).end)
CountFoot(t, p) == CountFrom(t, FootSearch(t, p))

\* the step in which a call of get_title_from_url returns, and that call
CallReturns == pc = "fetching" /\ pc' = "scan"
LastCall == calls'[Len(calls')]

\* C1: a resolvable definition [^label]: <url> for which the resolver
\* returned T on date D stands in the output as
\* [^label]: [T](<url>) retrieved on D, label and URL as in the input.
C1_Lines(spans, before, after) ==
    \A n \in 1..Len(before) :
        IsPlainResolvable(before[n]) =>
            /\ n <= Len(after)
            /\ \E k \in 1..Len(calls) :
                  /\ calls[k].at = spans[n].a
                  /\ calls[k].url = Tail(DefBody(before[n]))
                  /\ after[n] = Rewritten(DefLabel(before[n]), calls[k].title,
                                          calls[k].url, date_str)

C1_RewrittenExactly ==
    pc = "done" =>
        C1_Lines(LineSpans(RewriterInput, 1), LinesOf(RewriterInput), LinesOf(output_file))

C1_Witness ==
    /\ pc = "done"
    /\ Len(calls) = 1
    /\ calls[1].title = TitleT
    /\ RewriterInput = Pieces[7]
    /\ output_file = Rewritten(<<"2">>, <<"T">>, <<"h", "t", "t", "p", "s", ":", "/", "/", "b">>,
                               <<"2", "0", "2", "5", "-", "0", "3", "-", "0", "9">>)

\* C4: a definition that is not resolvable stands in the output as it stood
\* in the input, and no resolver call is made for it.
C4_Lines(spans, before, after) ==
    \A n \in 1..Len(before) :
        (IsDefLine(before[n]) /\ ~IsResolvable(before[n])) =>
            /\ n <= Len(after)
            /\ after[n] = before[n]
            /\ \A k \in 1..Len(calls) :
                  calls[k].at < spans[n].a \/ calls[k].at > spans[n].b

C4_NonResolvableUntouched ==
    pc = "done" =>
        C4_Lines(LineSpans(RewriterInput, 1), LinesOf(RewriterInput), LinesOf(output_file))

\* what the claims call a failure of a call: the fetch raises, the parse
\* raises, or the title of an HTML page is a bot protection title
IsBotTitle(t) ==
    \/ StartsWith(Lower(Strip(t)), VerifyingPrefix)
    \/ Contains(Lower(t), CloudflareWord)

IsFailure(r) ==
    \/ r.raises # ""
    \/ r.raises = "" /\ Contains(r.content_type, PdfType) /\ ~r.parses
    \/ /\ r.raises = ""
       /\ ~Contains(r.content_type, PdfType)
       /\ Contains(r.content_type, HtmlType)
       /\ r.has_title
       /\ IsBotTitle(r.title)

\* C5: a call whose fetch raises, whose parse raises or whose bot
\* protection test fires returns "Error retrieving title", adds one to
\* error_count and appends one log entry with the URL, the original footnote
\* and the reason; the scan goes on, and at the end every match was rewritten.
C5_Step ==
    /\ (CallReturns /\ IsFailure(fetched')) =>
          /\ LastCall.title = ErrorRetrievingTitle
          /\ error_count' = error_count + 1
          /\ Len(error_log') = Len(error_log) + 1
          /\ SubSeq(error_log', 1, Len(error_log)) = error_log
          /\ error_log'[Len(error_log')].url = LastCall.url
          /\ error_log'[Len(error_log')].footnote = SubSeq(content, cur.start, cur.end - 1)
          /\ error_log'[Len(error_log')].reason # ""
          /\ out' = out \o Rewritten(cur.group1, ErrorRetrievingTitle, LastCall.url, date_str)
    /\ (pc = "scan" /\ pc' = "done") => processed_links = CountFoot(content, 1)

C5_FailuresAbsorbed == [][C5_Step]_vars

C5_Witness ==
    /\ pc = "done"
    /\ Len(calls) = 2
    /\ calls[1].title = ErrorRetrievingTitle
    /\ error_log[1].reason = "Timeout"
    /\ calls[2].title = TitleT
    /\ error_count = 1
    /\ Len(error_log) = 1

\* C6: for a PDF response a malformed payload, absent metadata or an absent
\* metadata title gives "Untitled PDF", no error counted, no log entry.
C6_Step ==
    (/\ CallReturns
     /\ fetched'.raises = ""
     /\ Contains(fetched'.content_type, PdfType)
     /\ (~fetched'.parses \/ ~fetched'.has_metadata \/ ~fetched'.has_title)) =>
        /\ LastCall.title = UntitledPdf
        /\ error_count' = error_count
        /\ error_log' = error_log

C6_PdfFallback == [][C6_Step]_vars

\* C7: the error log holds as many records as error_count says, which is
\* the number of calls that returned a failure placeholder; the summary
\* reports the counters and shows the log path only when errors > 0.
FailedCalls == {k \in 1..Len(calls) : calls[k].title \in {ErrorRetrievingTitle, UnknownResource}}

C7_LogMatchesCounter ==
    /\ Len(error_log) = error_count
    /\ error_count = Cardinality(FailedCalls)
    /\ summary.printed =>
          /\ pc = "done"
          /\ summary.links = processed_links
          /\ summary.errors = error_count
          /\ summary.log_path_shown <=> (error_count > 0)

C7_Witness ==
    /\ pc = "done"
    /\ summary.printed /\ summary.links = 2 /\ summary.errors = 1 /\ summary.log_path_shown
    /\ Len(error_log) = 1
    /\ calls[1].title = TitleT
    /\ calls[2].title = ErrorRetrievingTitle
    /\ error_log[1].reason = "Timeout"

\* C9: the fetches of a run are the URLs of the resolvable definitions in
\* document order, one fetch per definition, a fetch starting only after
\* the call before it returned, and the log entries in the order of the
\* failing definitions.
LoggedUrls == [k \in 1..Len(error_log) |-> error_log[k].url]
FailedUrls ==
    LET failed == SelectSeq(calls, LAMBDA c : c.title \in {ErrorRetrievingTitle, UnknownResource})
    IN [k \in 1..Len(failed) |-> failed[k].url]

C9_FetchesInDocumentOrder ==
    /\ Len(fetches) = Len(calls) + (IF pc = "fetching" THEN 1 ELSE 0)
    /\ \A k \in 1..Len(calls) : calls[k].url = fetches[k]
    /\ \A k \in 1..(Len(calls) - 1) : calls[k].at < calls[k + 1].at
    /\ LoggedUrls = FailedUrls
    /\ pc = "done" => fetches = ResolvableUrlsFrom(RewriterInput, 1)

\* C10: the counters never decrease; always
\* links <= footnotes <= links + 1 and errors <= footnotes; when the run
\* completes links = footnotes = the number of definitions matched.
C10_Inv ==
    /\ processed_links <= footnote_count
    /\ footnote_count <= processed_links + 1
    /\ error_count <= footnote_count

C10_Step ==
    /\ footnote_count' >= footnote_count
    /\ processed_links' >= processed_links
    /\ error_count' >= error_count
    /\ comma_count' >= comma_count
    /\ C10_Inv'
    /\ (pc = "scan" /\ pc' = "done") =>
          /\ processed_links' = footnote_count'
          /\ footnote_count' = CountFoot(content, 1)

C10_Counters == C10_Inv /\ [][C10_Step]_vars

C10_Witness ==
    /\ pc = "done"
    /\ footnote_count = 2
    /\ processed_links = 2
    /\ error_count = 2
    /\ calls[1].title = ErrorRetrievingTitle
    /\ calls[2].title = UnknownResource

====
